---- MODULE Spec2Model ----
(***************************************************************************)
(* Model of the research agent of backend/src/agent: the LangGraph         *)
(* workflow of graph.py (generate_query -> web_research* -> reflection ->   *)
(* web_research* | finalize_answer), the state channels of state.py and    *)
(* the citation helpers of utils.py.                                       *)
(*                                                                         *)
(* Text is a sequence of one-character strings.  An optional value (a      *)
(* Python value that may be None, or a dict key that may be missing) is    *)
(* the empty tuple for None and a one-element tuple for a present value.   *)
(***************************************************************************)
EXTENDS Integers, Sequences, FiniteSets, TLC

\* ---------------------------------------------------------------- bounds
\* Largest number of queries the query generator returns in one call.
MaxQueries == 2
\* Largest number of follow-up queries one reflection call returns.
MaxFollowUps == 1
\* Largest configured value of max_research_loops that is explored.
MaxLoops == 2
\* Number of grounding chunks of the response one web_research task is given
\* when finalize_answer is called alone.
ChunksPerTask == 11
\* Largest number of short urls an answer mentions when finalize_answer is
\* called alone.
MaxMentions == 2
\* Largest task id in direct calls of finalize_answer and resolve_urls.
MaxTaskId == 1
\* Largest number of grounding chunks in a direct call of resolve_urls.
MaxUrls == 3
\* Longest text in a direct call of insert_citation_markers; end_index goes
\* one beyond it.
MaxTextLen == 2
\* Largest number of citations in a direct call of insert_citation_markers.
MaxCitations == 2
\* Largest number of grounding supports in a direct call of get_citations.
MaxSupports == 2

\* ------------------------------------------------------- optional values
None == <<>>
Some(v) == <<v>>
IsNone(o) == Len(o) = 0
Val(o) == o[1]

Range(s) == {s[i] : i \in 1..Len(s)}

\* dict.get(key): the value when the key is present, None otherwise
Get(d, key) == IF key \in DOMAIN d THEN Some(d[key]) ELSE None

\* dict.get(key, default)
GetOr(d, key, default) == IF key \in DOMAIN d THEN d[key] ELSE default

\* ------------------------------------------------------------------ text
Digits == <<"0", "1", "2", "3", "4", "5", "6", "7", "8", "9">>

\* str(n) of a non-negative integer, as the f-strings of utils.py render it
RECURSIVE IntToStr(_)
IntToStr(n) ==
    IF n < 10 THEN <<Digits[n + 1]>>
    ELSE IntToStr(n \div 10) \o <<Digits[(n % 10) + 1]>>

\* Python slice bound: negative counts from the end, out of range is clamped
ClampIdx(i, n) ==
    IF i < 0 THEN (IF i + n < 0 THEN 0 ELSE i + n)
    ELSE IF i > n THEN n ELSE i

\* s[:i]
SliceTo(s, i) == SubSeq(s, 1, ClampIdx(i, Len(s)))

\* s[i:]
SliceFrom(s, i) == SubSeq(s, ClampIdx(i, Len(s)) + 1, Len(s))

StartsWith(s, p) == Len(p) <= Len(s) /\ SubSeq(s, 1, Len(p)) = p

\* Python's  sub in s
Contains(s, sub) ==
    \E i \in 1..(Len(s) - Len(sub) + 1) : SubSeq(s, i, i + Len(sub) - 1) = sub

\* Python's  s.replace(old, new)  for a non-empty old: every non-overlapping
\* occurrence, scanning from the left
RECURSIVE StrReplace(_, _, _)
StrReplace(s, old, new) ==
    IF Len(s) < Len(old) THEN s
    ELSE IF StartsWith(s, old)
         THEN new \o StrReplace(SubSeq(s, Len(old) + 1, Len(s)), old, new)
         ELSE <<s[1]>> \o StrReplace(Tail(s), old, new)

\* Python's  s.split(sep)  for a one-character sep
RECURSIVE StrSplit(_, _)
StrSplit(s, sep) ==
    IF \A i \in 1..Len(s) : s[i] # sep THEN <<s>>
    ELSE LET k == CHOOSE i \in 1..Len(s) :
                      s[i] = sep /\ \A j \in 1..(i - 1) : s[j] # sep
         IN  <<SubSeq(s, 1, k - 1)>> \o StrSplit(SubSeq(s, k + 1, Len(s)), sep)

RECURSIVE Flatten(_)
Flatten(ss) == IF Len(ss) = 0 THEN <<>> ELSE Head(ss) \o Flatten(Tail(ss))

\* ------------------------------------------------------ utils.resolve_urls
\* "https://vertexaisearch.cloud.google.com/id/"
prefix ==
    <<"h","t","t","p","s",":","/","/","v","e","r","t","e","x","a","i",
      "s","e","a","r","c","h",".","c","l","o","u","d",".","g","o","o",
      "g","l","e",".","c","o","m","/","i","d","/">>

\* Variant of resolve_loop: the short url leaves the position out
RECURSIVE resolve_loop_without_idx(_, _, _, _)
resolve_loop_without_idx(urls, id, idx, resolved_map) ==
    IF idx >= Len(urls) THEN resolved_map
    ELSE LET url == urls[idx + 1] IN
         resolve_loop_without_idx(urls, id, idx + 1,
            IF url \in DOMAIN resolved_map THEN resolved_map
            ELSE resolved_map @@ (url :> (prefix \o IntToStr(id))))

\* Variant of resolve_loop: a repeated url is mapped again, the last
\* occurrence wins
RECURSIVE resolve_loop_last_wins(_, _, _, _)
resolve_loop_last_wins(urls, id, idx, resolved_map) ==
    IF idx >= Len(urls) THEN resolved_map
    ELSE LET url == urls[idx + 1] IN
         resolve_loop_last_wins(urls, id, idx + 1,
            (url :> (prefix \o IntToStr(id) \o <<"-">> \o IntToStr(idx)))
                @@ resolved_map)

\* Variant of resolve_loop: the short url leaves the task id out
RECURSIVE resolve_loop_without_id(_, _, _, _)
resolve_loop_without_id(urls, id, idx, resolved_map) ==
    IF idx >= Len(urls) THEN resolved_map
    ELSE LET url == urls[idx + 1] IN
         resolve_loop_without_id(urls, id, idx + 1,
            IF url \in DOMAIN resolved_map THEN resolved_map
            ELSE resolved_map @@ (url :> (prefix \o IntToStr(idx))))

\* The loop of resolve_urls: first occurrence of a url wins, and the short
\* url carries the position idx of that occurrence in the list.
RECURSIVE resolve_loop(_, _, _, _)
resolve_loop(urls, id, idx, resolved_map) ==
    IF idx >= Len(urls) THEN resolved_map
    ELSE LET url == urls[idx + 1] IN
         resolve_loop(urls, id, idx + 1,
            IF url \in DOMAIN resolved_map THEN resolved_map
            ELSE resolved_map @@
                 (url :> (prefix \o IntToStr(id) \o <<"-">> \o IntToStr(idx))))

\* site.web.uri raises AttributeError when a chunk has no web part; iterating
\* a missing (None) chunk list raises TypeError
resolve_urls_raises(urls_to_resolve) ==
    \/ IsNone(urls_to_resolve)
    \/ \E i \in 1..Len(Val(urls_to_resolve)) : IsNone(Val(urls_to_resolve)[i].web)

resolve_urls(urls_to_resolve, id) ==
    LET sites == Val(urls_to_resolve)
        urls  == [i \in 1..Len(sites) |-> Val(sites[i].web).uri]
    IN  resolve_loop(urls, id, 0, <<>>)

\* ----------------------------------------------------- utils.get_citations
\* Python list indexing: seq[ind] is defined for -len <= ind < len
PyIndexOk(ind, n) == -n <= ind /\ ind < n
PyIndex(ind, n) == IF ind >= 0 THEN ind + 1 ELSE n + ind + 1

\* Variant of label_of: a title without "." is taken whole
label_of_whole_title(title) ==
    LET parts == StrSplit(title, ".")
        init  == SubSeq(parts, 1, Len(parts) - 1)
    IN  IF Len(init) = 0 THEN Some(title) ELSE Some(init[1])

\* title.split(".")[:-1][0]: IndexError (None here) when the title has no "."
label_of(title) ==
    LET parts == StrSplit(title, ".")
        init  == SubSeq(parts, 1, Len(parts) - 1)
    IN  IF Len(init) = 0 THEN None ELSE Some(init[1])

\* The body of the try block for one chunk index: the source record that is
\* appended, or None when IndexError / AttributeError is caught and the
\* source is skipped.
source_of(chunks, ind, resolved_urls_map) ==
    IF ~PyIndexOk(ind, Len(chunks)) THEN None
    ELSE LET chunk == chunks[PyIndex(ind, Len(chunks))] IN
         IF IsNone(chunk.web) THEN None
         ELSE LET web == Val(chunk.web) IN
              IF IsNone(web.title) THEN None
              ELSE LET label == label_of(Val(web.title)) IN
                   IF IsNone(label) THEN None
                   ELSE Some([label     |-> Val(label),
                              short_url |-> Get(resolved_urls_map, web.uri),
                              value     |-> web.uri])

\* Variant of segments_of: one try block around the whole loop, so the
\* first source that fails ends the loop
RECURSIVE segments_of_stops_at_failure(_, _, _)
segments_of_stops_at_failure(chunks, indices, resolved_urls_map) ==
    IF Len(indices) = 0 THEN <<>>
    ELSE IF IsNone(source_of(chunks, Head(indices), resolved_urls_map))
         THEN <<>>
         ELSE source_of(chunks, Head(indices), resolved_urls_map)
              \o segments_of_stops_at_failure(chunks, Tail(indices),
                                               resolved_urls_map)

RECURSIVE segments_of(_, _, _)
segments_of(chunks, indices, resolved_urls_map) ==
    IF Len(indices) = 0 THEN <<>>
    ELSE source_of(chunks, Head(indices), resolved_urls_map)
         \o segments_of(chunks, Tail(indices), resolved_urls_map)

\* Variant of support_skipped: a missing start_index skips the support too
support_skipped_without_start(support) ==
    \/ IsNone(support.segment)
    \/ IsNone(Val(support.segment).start_index)
    \/ IsNone(Val(support.segment).end_index)

\* A support is skipped when it has no segment or no end_index
support_skipped(support) ==
    \/ IsNone(support.segment)
    \/ IsNone(Val(support.segment).end_index)

support_has_indices(support) ==
    /\ ~IsNone(support.grounding_chunk_indices)
    /\ Len(Val(support.grounding_chunk_indices)) > 0

citation_of(support, chunks, resolved_urls_map) ==
    LET segment == Val(support.segment) IN
    [start_index |-> IF IsNone(segment.start_index) THEN 0
                     ELSE Val(segment.start_index),
     end_index   |-> Val(segment.end_index),
     segments    |-> IF support_has_indices(support)
                     THEN segments_of(Val(chunks),
                                      Val(support.grounding_chunk_indices),
                                      resolved_urls_map)
                     ELSE <<>>]

RECURSIVE citations_loop(_, _, _)
citations_loop(supports, chunks, resolved_urls_map) ==
    IF Len(supports) = 0 THEN <<>>
    ELSE (IF support_skipped(Head(supports)) THEN <<>>
          ELSE <<citation_of(Head(supports), chunks, resolved_urls_map)>>)
         \o citations_loop(Tail(supports), chunks, resolved_urls_map)

\* get_citations returns early with no citations
citations_absent(response) ==
    \/ Len(response.candidates) = 0
    \/ IsNone(response.candidates[1].grounding_metadata)

\* Exceptions get_citations does not catch: iterating grounding_supports
\* that is None, and indexing grounding_chunks that is None (both TypeError)
get_citations_raises(response) ==
    /\ ~citations_absent(response)
    /\ LET meta == Val(response.candidates[1].grounding_metadata) IN
       \/ IsNone(meta.grounding_supports)
       \/ /\ IsNone(meta.grounding_chunks)
          /\ \E i \in 1..Len(Val(meta.grounding_supports)) :
                LET support == Val(meta.grounding_supports)[i] IN
                ~support_skipped(support) /\ support_has_indices(support)

get_citations(response, resolved_urls_map) ==
    IF citations_absent(response) THEN <<>>
    ELSE LET meta == Val(response.candidates[1].grounding_metadata) IN
         citations_loop(Val(meta.grounding_supports), meta.grounding_chunks,
                        resolved_urls_map)

\* ------------------------------------------- utils.insert_citation_markers
\* Variant of KeyLess: the order of a sort without reverse=True
KeyLess_ascending(a, b) ==
    \/ b.end_index < a.end_index
    \/ b.end_index = a.end_index /\ b.start_index < a.start_index

\* Sort key (end_index, start_index), compared as Python compares tuples
KeyLess(a, b) ==
    \/ a.end_index < b.end_index
    \/ a.end_index = b.end_index /\ a.start_index < b.start_index

\* sorted(..., reverse=True) is stable: a citation goes after every citation
\* already placed whose key is greater than or equal to its own
InsertByKey(sorted, c) ==
    LET smaller == {i \in 1..Len(sorted) : KeyLess(sorted[i], c)}
        k == IF smaller = {} THEN Len(sorted) + 1
             ELSE CHOOSE i \in smaller : \A j \in smaller : i <= j
    IN  SubSeq(sorted, 1, k - 1) \o <<c>> \o SubSeq(sorted, k, Len(sorted))

RECURSIVE sort_desc(_, _)
sort_desc(citations_list, sorted) ==
    IF Len(citations_list) = 0 THEN sorted
    ELSE sort_desc(Tail(citations_list), InsertByKey(sorted, Head(citations_list)))

sorted_citations(citations_list) == sort_desc(citations_list, <<>>)

\* How an f-string renders a value that may be None
PyFormat(o) == IF IsNone(o) THEN <<"N", "o", "n", "e">> ELSE Val(o)

RECURSIVE marker_to_insert(_)
marker_to_insert(segments) ==
    IF Len(segments) = 0 THEN <<>>
    ELSE <<" ", "[">> \o Head(segments).label \o <<"]", "(">>
         \o PyFormat(Head(segments).short_url) \o <<")">>
         \o marker_to_insert(Tail(segments))

\* Variant of insert_loop: the marker takes the place of the character at
\* end_idx instead of going in front of it
RECURSIVE insert_loop_overwrites(_, _)
insert_loop_overwrites(modified_text, sorted) ==
    IF Len(sorted) = 0 THEN modified_text
    ELSE LET end_idx == Head(sorted).end_index IN
         insert_loop_overwrites(SliceTo(modified_text, end_idx)
                        \o marker_to_insert(Head(sorted).segments)
                        \o SliceFrom(modified_text, end_idx + 1),
                     Tail(sorted))

RECURSIVE insert_loop(_, _)
insert_loop(modified_text, sorted) ==
    IF Len(sorted) = 0 THEN modified_text
    ELSE LET end_idx == Head(sorted).end_index IN
         insert_loop(SliceTo(modified_text, end_idx)
                        \o marker_to_insert(Head(sorted).segments)
                        \o SliceFrom(modified_text, end_idx),
                     Tail(sorted))

\* Variant of insert_citation_markers: modified_text starts out empty
insert_citation_markers_from_empty(text, citations_list) ==
    insert_loop(<<>>, sorted_citations(citations_list))

insert_citation_markers(text, citations_list) ==
    insert_loop(text, sorted_citations(citations_list))

\* ------------------------------------------- configuration.Configuration
FieldNames ==
    {"query_generator_model", "reflection_model", "answer_model",
     "number_of_initial_queries", "max_research_loops"}

IntFields == {"number_of_initial_queries", "max_research_loops"}

\* The Field(default=...) of every configuration field
FieldDefaults ==
    [query_generator_model     |-> "gemini-2.0-flash",
     reflection_model          |-> "gemini-2.5-flash",
     answer_model              |-> "gemini-2.5-pro",
     number_of_initial_queries |-> 3,
     max_research_loops        |-> 2]

\* name.upper()
Upper ==
    [query_generator_model     |-> "QUERY_GENERATOR_MODEL",
     reflection_model          |-> "REFLECTION_MODEL",
     answer_model              |-> "ANSWER_MODEL",
     number_of_initial_queries |-> "NUMBER_OF_INITIAL_QUERIES",
     max_research_loops        |-> "MAX_RESEARCH_LOOPS"]

DigitVal(c) == (CHOOSE i \in 1..10 : Digits[i] = c) - 1

\* The integer a decimal digit text is validated into
RECURSIVE ParseInt(_)
ParseInt(s) ==
    IF Len(s) = 0 THEN 0
    ELSE 10 * ParseInt(SubSeq(s, 1, Len(s) - 1)) + DigitVal(s[Len(s)])

\* os.environ.get(name.upper(), configurable.get(name)): the environment
\* variable when it is set, the runtime value otherwise
raw_value(environ, configurable, name) ==
    IF Upper[name] \in DOMAIN environ
    THEN Some(IF name \in IntFields THEN ParseInt(environ[Upper[name]])
              ELSE environ[Upper[name]])
    ELSE Get(configurable, name)

from_runnable_config(environ, config) ==
    LET configurable == GetOr(config, "configurable", <<>>) IN
    [name \in FieldNames |->
        IF IsNone(raw_value(environ, configurable, name))
        THEN FieldDefaults[name]
        ELSE Val(raw_value(environ, configurable, name))]

\* ------------------------------------------------------- state.py channels
OverallStateKeys ==
    {"messages", "search_query", "web_research_result", "sources_gathered",
     "initial_search_query_count", "max_research_loops",
     "research_loop_count", "reasoning_model"}

ReflectionStateKeys ==
    {"is_sufficient", "knowledge_gap", "follow_up_queries",
     "research_loop_count", "number_of_ran_queries"}

QueryGenerationStateKeys == {"search_query"}

\* Keys annotated with a reducer (operator.add, add_messages): an update is
\* appended to the stored list.  Every other key keeps the last value written.
ReducerKeys ==
    {"messages", "search_query", "web_research_result", "sources_gathered",
     "follow_up_queries"}

\* The state a node or a routing function is called with: the keys of its
\* schema that hold a value
ReadState(chans, keys) == [k \in (DOMAIN chans) \cap keys |-> chans[k]]

\* Variant of ApplyWrites: web_research_result keeps the last value written
ApplyWrites_result_overwritten(chans, writes) ==
    [k \in (DOMAIN chans) \cup (DOMAIN writes) |->
        IF k \notin DOMAIN writes THEN chans[k]
        ELSE IF k \in (ReducerKeys \ {"web_research_result"})
                /\ k \in DOMAIN chans
             THEN chans[k] \o writes[k]
             ELSE writes[k]]

\* Merging one returned update into the channels
ApplyWrites(chans, writes) ==
    [k \in (DOMAIN chans) \cup (DOMAIN writes) |->
        IF k \notin DOMAIN writes THEN chans[k]
        ELSE IF k \in ReducerKeys /\ k \in DOMAIN chans
             THEN chans[k] \o writes[k]
             ELSE writes[k]]

RECURSIVE ApplyAll(_, _)
ApplyAll(chans, writes_list) ==
    IF Len(writes_list) = 0 THEN chans
    ELSE ApplyAll(ApplyWrites(chans, Head(writes_list)), Tail(writes_list))

\* ------------------------------------------------------ graph.py functions
Send(node, arg) == [node |-> node, arg |-> arg]

\* Variant of generate_query: the rationale is reported as a message
generate_query_with_message(state, result) ==
    [search_query |-> result.query,
     messages     |-> <<[type |-> "ai", content |-> result.rationale]>>]

generate_query(state, result) == [search_query |-> result.query]

continue_to_web_research(state) ==
    [i \in 1..Len(state.search_query) |->
        Send("web_research",
             [search_query |-> state.search_query[i], id |-> i - 1])]

\* Exceptions that leave web_research after the provider has answered:
\* candidates[0] of an empty list, grounding_metadata.grounding_chunks of a
\* missing grounding_metadata, and what resolve_urls and get_citations raise
web_research_raises(response) ==
    \/ Len(response.candidates) = 0
    \/ IsNone(response.candidates[1].grounding_metadata)
    \/ resolve_urls_raises(
           Val(response.candidates[1].grounding_metadata).grounding_chunks)
    \/ get_citations_raises(response)

web_research(state, response) ==
    LET meta == Val(response.candidates[1].grounding_metadata)
        resolved_urls == resolve_urls(meta.grounding_chunks, state.id)
        citations == get_citations(response, resolved_urls)
        modified_text == insert_citation_markers(response.text, citations)
    IN  [sources_gathered    |->
             Flatten([i \in 1..Len(citations) |-> citations[i].segments]),
         search_query        |-> <<state.search_query>>,
         web_research_result |-> <<modified_text>>]

\* Variant of reflection: the loop counter counts the results gathered
reflection_counts_results(state, result) ==
    [is_sufficient         |-> result.is_sufficient,
     knowledge_gap         |-> result.knowledge_gap,
     follow_up_queries     |-> result.follow_up_queries,
     research_loop_count   |-> Len(state.web_research_result),
     number_of_ran_queries |-> Len(state.search_query)]

reflection(state, result) ==
    LET research_loop_count == GetOr(state, "research_loop_count", 0) + 1 IN
    [is_sufficient         |-> result.is_sufficient,
     knowledge_gap         |-> result.knowledge_gap,
     follow_up_queries     |-> result.follow_up_queries,
     research_loop_count   |-> research_loop_count,
     number_of_ran_queries |-> Len(state.search_query)]

\* max_research_loops as evaluate_research takes it: from the state it is
\* called with when the key is there, else from the configuration
max_research_loops_of(state, configurable) ==
    IF ~IsNone(Get(state, "max_research_loops"))
    THEN state.max_research_loops
    ELSE configurable.max_research_loops

\* One Send per entry of follow_up_queries, ids counting up from first_id
FollowUpSends(state, first_id) ==
    [i \in 1..Len(state.follow_up_queries) |->
        Send("web_research",
             [search_query |-> state.follow_up_queries[i],
              id |-> first_id + (i - 1)])]

\* Variant of evaluate_research: the bound is compared with > instead of >=
evaluate_research_strict(state, configurable) ==
    IF state.is_sufficient
       \/ state.research_loop_count > max_research_loops_of(state, configurable)
    THEN [goto |-> <<"finalize_answer">>, sends |-> <<>>]
    ELSE [goto |-> <<>>, sends |-> FollowUpSends(state, state.number_of_ran_queries)]

\* Variant of evaluate_research: finalizes only when the evaluator agrees
\* and the bound is reached
evaluate_research_both(state, configurable) ==
    IF state.is_sufficient
       /\ state.research_loop_count >= max_research_loops_of(state, configurable)
    THEN [goto |-> <<"finalize_answer">>, sends |-> <<>>]
    ELSE [goto |-> <<>>, sends |-> FollowUpSends(state, state.number_of_ran_queries)]

\* Variant of evaluate_research: follow-up ids are the bare enumerate index
evaluate_research_restart_ids(state, configurable) ==
    IF state.is_sufficient
       \/ state.research_loop_count >= max_research_loops_of(state, configurable)
    THEN [goto |-> <<"finalize_answer">>, sends |-> <<>>]
    ELSE [goto |-> <<>>, sends |-> FollowUpSends(state, 0)]

\* Variant of evaluate_research: every follow-up task of a batch gets the
\* id number_of_ran_queries, the enumerate index is not added
evaluate_research_same_offset(state, configurable) ==
    IF state.is_sufficient
       \/ state.research_loop_count >= max_research_loops_of(state, configurable)
    THEN [goto |-> <<"finalize_answer">>, sends |-> <<>>]
    ELSE [goto |-> <<>>,
          sends |-> [i \in 1..Len(state.follow_up_queries) |->
                       Send("web_research",
                            [search_query |-> state.follow_up_queries[i],
                             id |-> state.number_of_ran_queries])]]

\* Variant of evaluate_research: only the loop bound ends the research
evaluate_research_bound_only(state, configurable) ==
    IF state.research_loop_count >= max_research_loops_of(state, configurable)
    THEN [goto |-> <<"finalize_answer">>, sends |-> <<>>]
    ELSE [goto |-> <<>>, sends |-> FollowUpSends(state, state.number_of_ran_queries)]

\* The routing decision: goto names the node routed to, sends the
\* web_research tasks dispatched instead
evaluate_research(state, configurable) ==
    IF state.is_sufficient
       \/ state.research_loop_count >= max_research_loops_of(state, configurable)
    THEN [goto |-> <<"finalize_answer">>, sends |-> <<>>]
    ELSE [goto |-> <<>>, sends |-> FollowUpSends(state, state.number_of_ran_queries)]

\* The loop of finalize_answer over sources_gathered
RECURSIVE finalize_loop(_, _, _)
finalize_loop(sources, content, unique_sources) ==
    IF Len(sources) = 0
    THEN [content |-> content, unique_sources |-> unique_sources]
    ELSE LET source == Head(sources) IN
         IF Contains(content, Val(source.short_url))
         THEN finalize_loop(Tail(sources),
                  StrReplace(content, Val(source.short_url), source.value),
                  Append(unique_sources, source))
         ELSE finalize_loop(Tail(sources), content, unique_sources)

AIMessage(content) == [type |-> "ai", content |-> content]

HumanMessage(content) == [type |-> "human", content |-> content]

finalize_answer(state, result) ==
    LET done == finalize_loop(state.sources_gathered, result.content, <<>>) IN
    [messages         |-> <<AIMessage(done.content)>>,
     sources_gathered |-> done.unique_sources]

\* ------------------------------------------------------------- the run
VARIABLES
    environ,      \* os.environ: the configuration variables that are set
    config,       \* the RunnableConfig of the run
    channels,     \* the graph state: every key that holds a value
    pc,           \* the node(s) scheduled next, or "END" / "FAILED"
    tasks,        \* the web_research Sends of the batch in flight
    outs,         \* per task of the batch: None, or the update it returned
    dispatched,   \* history: per batch sent, the ids of its web_research tasks
    n_reflection, \* history: how often the reflection node was run
    n_finalize,   \* history: how often the finalize_answer node was run
    failure,      \* history: which call raised, "none" while none did
    synthesized,  \* history: the answer text the model returned, and the
                  \* sources gathered when it did
    produced,     \* history: per web_research task merged, its id and the
                  \* sources it gathered
    call,         \* a direct call of one function: its arguments, or None
    returned      \* what that call returned, None before it returns

vars == <<environ, config, channels, pc, tasks, outs, dispatched,
          n_reflection, n_finalize, failure, synthesized, produced, call,
          returned>>

Text(str, n) == str \o IntToStr(n)

\* What the query generator may return: 0..MaxQueries queries
QueryLists ==
    {[i \in 1..k |-> Text(<<"q">>, i)] : k \in 0..MaxQueries}

\* What the evaluator may return in reflection round r
ReflectionResults(r) ==
    {[is_sufficient     |-> b,
      knowledge_gap     |-> <<"g">>,
      follow_up_queries |-> [i \in 1..k |-> Text(Text(<<"f">>, r) \o <<"_">>, i)]]
        : b \in BOOLEAN, k \in 0..MaxFollowUps}

Chunk(uri, title) == [web |-> Some([uri |-> uri, title |-> Some(title)])]

Support(start, end, indices) ==
    [segment |-> Some([start_index |-> Some(start), end_index |-> Some(end)]),
     grounding_chunk_indices |-> Some(indices)]

Response(text, metadata) ==
    [text |-> text, candidates |-> <<[grounding_metadata |-> metadata]>>]

Metadata(chunks, supports) ==
    [grounding_chunks |-> chunks, grounding_supports |-> supports]

U1 == <<"u", "1">>
U2 == <<"u", "2">>

\* One cited source
ResponseOne ==
    Response(<<"a", "b", "c", "d">>,
        Some(Metadata(Some(<<Chunk(U1, <<"r", ".", "p">>)>>),
                      Some(<<Support(0, 2, <<0>>)>>))))

\* Two sources, the second cited by two supports
ResponseTwo ==
    Response(<<"a", "b", "c", "d">>,
        Some(Metadata(Some(<<Chunk(U1, <<"r", ".", "p">>),
                             Chunk(U2, <<"n", ".", "h">>)>>),
                      Some(<<Support(0, 2, <<0, 1>>), Support(2, 4, <<1>>)>>))))

\* No grounding metadata at all
ResponseNoMetadata == Response(<<"a", "b">>, None)

\* Grounding metadata without chunks
ResponseNoChunks ==
    Response(<<"a", "b">>, Some(Metadata(None, Some(<<>>))))

\* Grounding metadata without supports
ResponseNoSupports ==
    Response(<<"a", "b">>,
        Some(Metadata(Some(<<Chunk(U1, <<"r", ".", "p">>)>>), None)))

\* What the Evidence Provider may answer
Responses ==
    {ResponseOne, ResponseTwo, ResponseNoMetadata, ResponseNoChunks,
     ResponseNoSupports}

\* The short urls an answer may mention: that of the first and of the last
\* gathered source, and one that no source carries
Mentionable(sources) ==
    {Val(sources[i].short_url) : i \in {1, Len(sources)} \cap (1..Len(sources))}
        \cup {prefix \o <<"9", "-", "9">>}

\* What the answer model may return: a text mentioning no short url, or one
Answers(sources) ==
    {[content |-> <<"A", ".">>]}
    \cup {[content |-> <<"A", " ">> \o ref \o <<".">>] : ref \in Mentionable(sources)}

\* The values of max_research_loops a run input may carry
InputLoops == {1}

\* The run input: the user's message and, optionally, max_research_loops
Inputs ==
    {[messages |-> <<HumanMessage(<<"t">>)>>]}
    \cup {[messages |-> <<HumanMessage(<<"t">>)>>, max_research_loops |-> m] :
             m \in InputLoops}

Configs ==
    {[configurable |-> <<>>]}
    \cup {[configurable |-> [max_research_loops |-> m]] : m \in 0..MaxLoops}

\* Channels before the input is written: the reducer keys hold empty lists
EmptyChannels == [k \in ReducerKeys |-> <<>>]

Init ==
    /\ environ = <<>>
    /\ config \in Configs
    /\ \E input \in Inputs : channels = ApplyWrites(EmptyChannels, input)
    /\ pc = "generate_query"
    /\ tasks = <<>>
    /\ outs = <<>>
    /\ dispatched = <<>>
    /\ n_reflection = 0
    /\ n_finalize = 0
    /\ failure = "none"
    /\ synthesized = None
    /\ produced = <<>>
    /\ call = None
    /\ returned = None

configurable == from_runnable_config(environ, config)

\* Scheduling after a routing function returned sends: the Sends run next;
\* with nothing to run the run is over
Dispatch(sends) ==
    /\ tasks' = sends
    /\ outs' = [i \in 1..Len(sends) |-> None]
    /\ dispatched' = Append(dispatched, [i \in 1..Len(sends) |-> sends[i].arg.id])
    /\ pc' = IF Len(sends) = 0 THEN "END" ELSE "web_research"

\* A call raised: the run fails where it is
Fail(what) ==
    /\ pc' = "FAILED"
    /\ failure' = what
    /\ UNCHANGED <<produced, call, returned>>
    /\ UNCHANGED <<environ, config, channels, tasks, outs, dispatched,
                   n_finalize, synthesized>>

\* generate_query and its conditional edge continue_to_web_research
RunGenerateQuery ==
    /\ pc = "generate_query"
    /\ \E query \in QueryLists :
          LET writes == generate_query(ReadState(channels, OverallStateKeys),
                                       [query |-> query, rationale |-> <<"r">>])
              after  == ApplyWrites(channels, writes)
          IN  /\ channels' = after
              /\ Dispatch(continue_to_web_research(
                     ReadState(after, QueryGenerationStateKeys)))
    /\ UNCHANGED <<produced, call, returned>>
    /\ UNCHANGED <<environ, config, n_reflection, n_finalize, failure,
                   synthesized>>

\* structured_llm.invoke raises in generate_query
FailGenerateQuery ==
    /\ pc = "generate_query"
    /\ Fail("generate_query")
    /\ UNCHANGED n_reflection

\* One web_research task of the batch, on the response the provider gave it
RunWebResearch ==
    /\ pc = "web_research"
    /\ \E i \in 1..Len(tasks), response \in Responses :
          /\ IsNone(outs[i])
          /\ IF web_research_raises(response)
             THEN Fail("web_research evidence") /\ UNCHANGED n_reflection
             ELSE /\ outs' = [outs EXCEPT
                                 ![i] = Some(web_research(tasks[i].arg, response))]
                  /\ UNCHANGED <<produced, call, returned>>
                  /\ UNCHANGED <<environ, config, channels, pc, tasks,
                                 dispatched, n_reflection, n_finalize, failure,
                                 synthesized>>

\* genai_client.models.generate_content raises in a web_research task
FailWebResearch ==
    /\ pc = "web_research"
    /\ \E i \in 1..Len(tasks) : IsNone(outs[i])
    /\ Fail("web_research provider")
    /\ UNCHANGED n_reflection

\* Every task of the batch has returned: their updates are merged, in task
\* order, and the edge web_research -> reflection schedules reflection
FanIn ==
    /\ pc = "web_research"
    /\ \A i \in 1..Len(tasks) : ~IsNone(outs[i])
    /\ channels' = ApplyAll(channels, [i \in 1..Len(outs) |-> Val(outs[i])])
    /\ pc' = "reflection"
    /\ tasks' = <<>>
    /\ outs' = <<>>
    /\ produced' = produced \o [i \in 1..Len(tasks) |->
                       [id |-> tasks[i].arg.id,
                        sources_gathered |-> Val(outs[i]).sources_gathered]]
    /\ UNCHANGED <<call, returned>>
    /\ UNCHANGED <<environ, config, dispatched, n_reflection, n_finalize,
                   failure, synthesized>>

\* reflection and its conditional edge evaluate_research
RunReflection ==
    /\ pc = "reflection"
    /\ n_reflection' = n_reflection + 1
    /\ \E result \in ReflectionResults(n_reflection + 1) :
          LET writes == reflection(ReadState(channels, OverallStateKeys), result)
              after  == ApplyWrites(channels, writes)
              route  == evaluate_research(ReadState(after, ReflectionStateKeys),
                                          configurable)
          IN  /\ channels' = after
              /\ IF Len(route.goto) > 0
                 THEN /\ pc' = route.goto[1]
                      /\ UNCHANGED <<tasks, outs, dispatched>>
                 ELSE Dispatch(route.sends)
    /\ UNCHANGED <<produced, call, returned>>
    /\ UNCHANGED <<environ, config, n_finalize, failure, synthesized>>

\* Variant of FailReflection: the failed call is replaced by a default
\* "sufficient" verdict and the run goes on
FailReflectionDefaulted ==
    /\ pc = "reflection"
    /\ n_reflection' = n_reflection + 1
    /\ failure' = "reflection"
    /\ channels' = ApplyWrites(channels, [is_sufficient |-> TRUE])
    /\ pc' = "finalize_answer"
    /\ UNCHANGED <<produced, call, returned>>
    /\ UNCHANGED <<environ, config, tasks, outs, dispatched, n_finalize,
                   synthesized>>

\* The structured-output call raises in reflection
FailReflection ==
    /\ pc = "reflection"
    /\ n_reflection' = n_reflection + 1
    /\ Fail("reflection")

\* finalize_answer, then the edge to END
RunFinalizeAnswer ==
    /\ pc = "finalize_answer"
    /\ \E result \in Answers(channels.sources_gathered) :
          /\ channels' = ApplyWrites(channels,
                 finalize_answer(ReadState(channels, OverallStateKeys), result))
          /\ synthesized' = Some([content |-> result.content,
                                  sources_gathered |-> channels.sources_gathered])
    /\ n_finalize' = n_finalize + 1
    /\ pc' = "END"
    /\ UNCHANGED <<produced, call, returned>>
    /\ UNCHANGED <<environ, config, tasks, outs, dispatched, n_reflection,
                   failure>>

\* llm.invoke raises in finalize_answer
FailFinalizeAnswer ==
    /\ pc = "finalize_answer"
    /\ Fail("finalize_answer")
    /\ UNCHANGED n_reflection

Next ==
    \/ RunGenerateQuery
    \/ FailGenerateQuery
    \/ RunWebResearch
    \/ FailWebResearch
    \/ FanIn
    \/ RunReflection
    \/ FailReflection
    \/ RunFinalizeAnswer
    \/ FailFinalizeAnswer

Spec == Init /\ [][Next]_vars

\* ------------------------------------------------------------ properties
MaxResearchLoops == configurable.max_research_loops

AllDispatched == Flatten(dispatched)

ReasoningCalls == {"generate_query", "reflection", "finalize_answer"}

\* C1 (as stated): the reflection step is executed at most M times, M the
\* configured max_research_loops, for every M >= 0
C1_ReflectionsAtMostM == n_reflection <= MaxResearchLoops

\* C1 (amended): the reflection step is executed at most max(M, 1) times, and
\* once it has been executed max(M, 1) times without a failed call the run is
\* routed to finalize_answer (or has finalized)
C1_ReflectionsAtMostMaxM1 ==
    LET bound == IF MaxResearchLoops < 1 THEN 1 ELSE MaxResearchLoops IN
    /\ n_reflection <= bound
    /\ (n_reflection = bound /\ failure = "none")
          => \/ pc = "finalize_answer"
             \/ pc = "END" /\ n_finalize = 1

\* C1 witness: the bound of 2 forced finalize_answer after the second
\* reflection although the evaluator still found the evidence insufficient
C1_Witness ==
    /\ pc = "finalize_answer"
    /\ MaxResearchLoops = 2
    /\ n_reflection = 2
    /\ ~channels.is_sufficient
    /\ Len(channels.follow_up_queries) > 0

\* C2: whenever the routing after reflection sees is_sufficient true or
\* research_loop_count >= max_research_loops, finalize_answer is the only next
\* step and no web_research task is dispatched
C2_SafetyBoundWins ==
    [][(/\ pc = "reflection"
        /\ failure' = "none"
        /\ \/ channels'.is_sufficient
           \/ channels'.research_loop_count >= MaxResearchLoops)
       => (/\ pc' = "finalize_answer"
           /\ tasks' = <<>>
           /\ dispatched' = dispatched)]_vars

\* C2 witness: routed to finalize_answer by the bound alone, the evaluator
\* having answered "insufficient" with follow-up queries
C2_Witness ==
    /\ pc = "finalize_answer"
    /\ ~channels.is_sufficient
    /\ channels.research_loop_count >= MaxResearchLoops
    /\ Len(channels.follow_up_queries) > 0
    /\ Len(dispatched) = 1

\* C3: no two web_research tasks dispatched in a run carry the same id
C3_TaskIdsUnique ==
    \A i, j \in 1..Len(AllDispatched) :
        i # j => AllDispatched[i] # AllDispatched[j]

\* C3 witness: after an initial batch of two tasks a first follow-up batch
\* of one task and a second follow-up batch of two tasks were dispatched,
\* the second in flight with its ids one apart
C3_Witness ==
    /\ pc = "web_research"
    /\ Len(dispatched) = 3
    /\ Len(dispatched[1]) = 2
    /\ Len(dispatched[2]) = 1
    /\ Len(dispatched[3]) = 2
    /\ dispatched[3][2] = dispatched[3][1] + 1
    /\ dispatched[3][1] > dispatched[2][1]

\* C4: a run in which no call failed ends only after finalize_answer ran,
\* exactly once
C4_RunEndsFinalized ==
    (pc = "END" /\ failure = "none") => n_finalize = 1

\* C5: when generate_query returned no query, the run still reaches the
\* reflection step
C5_ZeroQueriesReachReflection ==
    (pc = "END" /\ Len(channels.search_query) = 0) => n_reflection >= 1

\* C6: when the first reflection returns is_sufficient = true and
\* max_research_loops >= 1, the run goes to finalize_answer and no second
\* web_research batch is dispatched
C6_SufficiencyShortCircuit ==
    (/\ n_reflection = 1
     /\ failure # "reflection"
     /\ MaxResearchLoops >= 1
     /\ channels.is_sufficient)
    => /\ Len(dispatched) = 1
       /\ tasks = <<>>
       /\ pc \in {"finalize_answer", "END", "FAILED"}
       /\ pc = "END" => n_finalize = 1

\* C6 witness: with max_research_loops = 2 the first reflection answered
\* "sufficient" (and offered follow-up queries); the run has finalized
C6_Witness ==
    /\ pc = "END"
    /\ n_finalize = 1
    /\ n_reflection = 1
    /\ MaxResearchLoops = 2
    /\ channels.is_sufficient
    /\ Len(channels.follow_up_queries) > 0

\* C7: a failed Evidence Provider call of one web_research task does not
\* abort the run
C7_TaskFailureIsolated ==
    failure = "web_research provider" => pc # "FAILED"

\* C8: no exception of the evidence processing (url resolution, citation
\* extraction, insertion) escapes a web_research task
C8_MalformedEvidenceNotFatal == failure # "web_research evidence"

\* C9: a failed query-generation, reflection or synthesis call ends the run
\* in failure at that step, writes nothing to the state and dispatches
\* nothing, and no step runs after a failure
C9_ReasoningFailureFatal ==
    [][/\ pc # "FAILED"
       /\ (failure = "none" /\ failure' \in ReasoningCalls)
             => /\ pc = failure'
                /\ pc' = "FAILED"
                /\ channels' = channels
                /\ tasks' = tasks
                /\ dispatched' = dispatched
                /\ n_finalize' = n_finalize]_vars

\* C9 witness: the reflection call failed after evidence had been gathered
C9_Witness ==
    /\ pc = "FAILED"
    /\ failure = "reflection"
    /\ Len(channels.sources_gathered) > 0
    /\ "is_sufficient" \notin DOMAIN channels

\* C10: after finalize_answer the state's sources_gathered holds exactly the
\* gathered sources whose short url occurred in the synthesized answer, each
\* once
C10_FilteredReferenceList ==
    (pc = "END" /\ n_finalize = 1) =>
        LET before  == Val(synthesized).sources_gathered
            content == Val(synthesized).content
            cited   == {s \in Range(before) : Contains(content, Val(s.short_url))}
            emitted == channels.sources_gathered
        IN  /\ Range(emitted) = cited
            /\ Len(emitted) = Cardinality(cited)

\* ------------------------------------------------- direct function calls
\* The graph of a run stands still while one function is called directly
NoRun ==
    /\ environ = <<>>
    /\ config = [configurable |-> <<>>]
    /\ channels = EmptyChannels
    /\ pc = "call"
    /\ tasks = <<>>
    /\ outs = <<>>
    /\ dispatched = <<>>
    /\ n_reflection = 0
    /\ n_finalize = 0
    /\ failure = "none"
    /\ synthesized = None
    /\ produced = <<>>

NoRunStep ==
    UNCHANGED <<environ, config, channels, pc, tasks, outs, dispatched,
                n_reflection, n_finalize, failure, synthesized, produced>>

\* All sequences over S of length lo..hi
SeqsOf(S, lo, hi) == UNION {[1..n -> S] : n \in lo..hi}

\* All sequences over S of length lo..hi without a repeated element
DistinctSeqsOf(S, lo, hi) ==
    {q \in SeqsOf(S, lo, hi) : \A i, j \in 1..Len(q) : q[i] = q[j] => i = j}

\* ------------------------------------------- finalize_answer, called alone
\* A grounded response of n chunks with distinct uris u0/, u1/, ..., one
\* support for each index of cited, in that order
ManyChunks(n) ==
    [i \in 1..n |-> Chunk(Text(<<"u">>, i - 1) \o <<"/">>, <<"r", ".", "p">>)]

ResponseMany(n, cited) ==
    Response(<<"a", "b">>,
        Some(Metadata(Some(ManyChunks(n)),
                      Some([k \in 1..Len(cited) |-> Support(0, 1, <<cited[k]>>)]))))

\* The chunk indices a support may cite: the first two and the last
CitedIndices == {0, 1, ChunksPerTask - 1}

\* The text of an answer that mentions refs, in that order
AnswerText(refs) ==
    <<"A">> \o Flatten([i \in 1..Len(refs) |-> <<" ">> \o refs[i]]) \o <<".">>

\* finalize_answer on the sources one web_research task gathered from a
\* response of ChunksPerTask chunks, and an answer that mentions up to
\* MaxMentions of them by short url
FinalizeCalls ==
    {[fn        |-> "finalize_answer",
      state     |-> [sources_gathered |-> sources],
      mentioned |-> [i \in 1..Len(m) |-> sources[m[i]]],
      result    |-> [content |-> AnswerText(
                        [i \in 1..Len(m) |-> Val(sources[m[i]].short_url)])]] :
        <<sources, m>> \in UNION {
            {web_research([id |-> id, search_query |-> <<"q">>],
                          ResponseMany(ChunksPerTask, cited)).sources_gathered}
              \X SeqsOf(1..Len(cited), 0, MaxMentions) :
                id \in 0..MaxTaskId,
                cited \in DistinctSeqsOf(CitedIndices, 1, 2)}}

InitFinalize ==
    /\ NoRun
    /\ \E c \in FinalizeCalls : call = Some(c)
    /\ returned = None

CallFinalizeAnswer ==
    /\ ~IsNone(call)
    /\ Val(call).fn = "finalize_answer"
    /\ IsNone(returned)
    /\ returned' = Some(finalize_answer(Val(call).state, Val(call).result))
    /\ UNCHANGED call
    /\ NoRunStep

NextFinalize == CallFinalizeAnswer

SpecFinalize == InitFinalize /\ [][NextFinalize]_vars

\* C11: once finalize_answer has returned, every short url the synthesized
\* answer mentioned stands replaced by the original URL of the source that
\* carries it, whatever the order of the sources and of the mentions
C11_MentionsReplacedByOwnUrl ==
    (~IsNone(call) /\ Val(call).fn = "finalize_answer" /\ ~IsNone(returned)) =>
        Val(returned).messages[1].content =
            AnswerText([i \in 1..Len(Val(call).mentioned) |->
                           Val(call).mentioned[i].value])

\* ------------------------------------------------ properties of short urls
\* C12: in a run, two gathered sources that carry the same short url were
\* produced by the same web_research task and stand for the same original
\* URL; every entry of sources_gathered is a source some task produced
C12_ShortUrlsCollisionFree ==
    /\ \A p, q \in 1..Len(produced) :
          \A s \in Range(produced[p].sources_gathered),
             t \in Range(produced[q].sources_gathered) :
                s.short_url = t.short_url => (p = q /\ s.value = t.value)
    /\ \A s \in Range(channels.sources_gathered) :
          \E p \in 1..Len(produced) : s \in Range(produced[p].sources_gathered)

\* Two tasks of different batches gathered the same original URL, and one
\* task gathered two different URLs
C12_Witness ==
    /\ Len(dispatched) >= 2
    /\ \E p, q \in 1..Len(produced) :
          /\ p # q
          /\ \E s \in Range(produced[p].sources_gathered),
                t \in Range(produced[q].sources_gathered) : s.value = t.value
    /\ \E p \in 1..Len(produced) :
          \E s, t \in Range(produced[p].sources_gathered) : s.value # t.value
    /\ Len(channels.sources_gathered) >= 3

\* ---------------------------------------------- resolve_urls, called alone
U3 == <<"u", "3">>

\* resolve_urls on a chunk list of up to MaxUrls chunks over three uris,
\* repetitions included
ResolveCalls ==
    {[fn              |-> "resolve_urls",
      urls_to_resolve |-> Some([i \in 1..Len(uris) |->
                                   Chunk(uris[i], <<"r", ".", "p">>)]),
      id              |-> id] :
        uris \in SeqsOf({U1, U2, U3}, 0, MaxUrls), id \in 0..MaxTaskId}

InitResolve ==
    /\ NoRun
    /\ \E c \in ResolveCalls : call = Some(c)
    /\ returned = None

CallResolveUrls ==
    /\ ~IsNone(call)
    /\ Val(call).fn = "resolve_urls"
    /\ IsNone(returned)
    /\ returned' = Some(resolve_urls(Val(call).urls_to_resolve, Val(call).id))
    /\ UNCHANGED call
    /\ NoRunStep

NextResolve == CallResolveUrls

SpecResolve == InitResolve /\ [][NextResolve]_vars

\* The uris of the chunk list of the call, in list order
CalledUris ==
    [i \in 1..Len(Val(Val(call).urls_to_resolve)) |->
        Val(Val(Val(call).urls_to_resolve)[i].web).uri]

ResolveReturned ==
    ~IsNone(call) /\ Val(call).fn = "resolve_urls" /\ ~IsNone(returned)

\* The short url of task id and index k
ShortUrl(id, k) == prefix \o IntToStr(id) \o <<"-">> \o IntToStr(k)

\* C13: the mapping resolve_urls returns has exactly the distinct uris of
\* the chunk list as its keys, and maps different uris to different short
\* urls
C13_OneEntryPerUriInjective ==
    ResolveReturned =>
        /\ DOMAIN Val(returned) = Range(CalledUris)
        /\ \A a, b \in DOMAIN Val(returned) :
              Val(returned)[a] = Val(returned)[b] => a = b

\* A list with a repeated uri and another uri was resolved
C13_Witness ==
    /\ ResolveReturned
    /\ Cardinality(Range(CalledUris)) >= 2
    /\ Cardinality(Range(CalledUris)) < Len(CalledUris)
    /\ Cardinality(DOMAIN Val(returned)) = Cardinality(Range(CalledUris))

\* Number of distinct uris that occur before the first occurrence of uri
RankAmongDistinct(uris, uri) ==
    LET first == CHOOSE i \in 1..Len(uris) :
                    uris[i] = uri /\ \A j \in 1..(i - 1) : uris[j] # uri
    IN  Cardinality({uris[j] : j \in 1..(first - 1)})

\* Zero-based position of the first occurrence of uri
FirstPosition(uris, uri) ==
    (CHOOSE i \in 1..Len(uris) :
        uris[i] = uri /\ \A j \in 1..(i - 1) : uris[j] # uri) - 1

\* C14 as stated: the short url of a uri carries the task id and the rank of
\* the uri among the distinct uris of the list, in order of first occurrence
C14_IndexIsRankAmongDistinct ==
    ResolveReturned =>
        \A uri \in DOMAIN Val(returned) :
            Val(returned)[uri] =
                ShortUrl(Val(call).id, RankAmongDistinct(CalledUris, uri))

\* C14, amended: the short url of a uri carries the task id and the
\* zero-based position of the first occurrence of the uri in the chunk list,
\* repeated chunks counted
C14_IndexIsFirstPosition ==
    ResolveReturned =>
        \A uri \in DOMAIN Val(returned) :
            Val(returned)[uri] =
                ShortUrl(Val(call).id, FirstPosition(CalledUris, uri))

\* A uri first seen after a repeated one was resolved: its position and its
\* rank among the distinct uris differ
C14_Witness ==
    /\ ResolveReturned
    /\ \E uri \in DOMAIN Val(returned) :
          FirstPosition(CalledUris, uri) # RankAmongDistinct(CalledUris, uri)

\* ------------------------------------ insert_citation_markers, called alone
\* The characters of the texts; no marker holds one of them
TextChars == <<"a", "b", "c", "d", "e", "f">>

SegmentX == [label |-> <<"x">>, short_url |-> Some(<<"s">>), value |-> U1]
SegmentY == [label |-> <<"y">>, short_url |-> Some(<<"t">>), value |-> U2]

\* The citations of the calls: any end_index up to one beyond the longest
\* text, start_index 0 or 1, and no, one or two sources
InsertCitations ==
    {[start_index |-> st, end_index |-> en, segments |-> segs] :
        st \in 0..1, en \in 0..(MaxTextLen + 1),
        segs \in {<<>>, <<SegmentX>>, <<SegmentX, SegmentY>>}}

InsertCalls ==
    {[fn             |-> "insert_citation_markers",
      text           |-> SubSeq(TextChars, 1, len),
      citations_list |-> cl] :
        len \in 0..MaxTextLen, cl \in SeqsOf(InsertCitations, 0, MaxCitations)}

InitInsert ==
    /\ NoRun
    /\ \E c \in InsertCalls : call = Some(c)
    /\ returned = None

CallInsertCitationMarkers ==
    /\ ~IsNone(call)
    /\ Val(call).fn = "insert_citation_markers"
    /\ IsNone(returned)
    /\ returned' = Some(insert_citation_markers(Val(call).text,
                                                Val(call).citations_list))
    /\ UNCHANGED call
    /\ NoRunStep

NextInsert == CallInsertCitationMarkers

SpecInsert == InitInsert /\ [][NextInsert]_vars

InsertReturned ==
    ~IsNone(call) /\ Val(call).fn = "insert_citation_markers" /\ ~IsNone(returned)

\* Every end_index of the call lies within the text
EndsWithinText ==
    \A i \in 1..Len(Val(call).citations_list) :
        /\ 0 <= Val(call).citations_list[i].end_index
        /\ Val(call).citations_list[i].end_index <= Len(Val(call).text)

IsTextChar(c) == c \in Range(TextChars)

RECURSIVE MarkersLength(_)
MarkersLength(citations_list) ==
    IF Len(citations_list) = 0 THEN 0
    ELSE Len(marker_to_insert(Head(citations_list).segments))
         + MarkersLength(Tail(citations_list))

\* C15: when every end_index is at most the length of the text, the call
\* returns (no slice raises), the output is as long as the text and all
\* markers together, and the output without the marker characters is the
\* original text
C15_OriginalTextKept ==
    (InsertReturned /\ EndsWithinText) =>
        /\ SelectSeq(Val(returned), IsTextChar) = Val(call).text
        /\ Len(Val(returned)) =
              Len(Val(call).text) + MarkersLength(Val(call).citations_list)

\* Two citations with markers were inserted inside a text of two characters
C15_Witness ==
    /\ InsertReturned
    /\ EndsWithinText
    /\ Len(Val(call).text) >= 2
    /\ Len(Val(call).citations_list) >= 2
    /\ \A i \in 1..Len(Val(call).citations_list) :
          /\ Len(Val(call).citations_list[i].segments) > 0
          /\ Val(call).citations_list[i].end_index \in 1..(Len(Val(call).text) - 1)
    /\ Len(Val(returned)) > Len(Val(call).text)

\* The position end_index denotes in the unmodified text, as a slice takes it
Anchor(citation, text) ==
    IF citation.end_index > Len(text) THEN Len(text) ELSE citation.end_index

\* The markers of the citations anchored at position p, one after the other
MarkersAt(citations_list, text, p) ==
    Flatten([i \in 1..Len(citations_list) |->
                IF Anchor(citations_list[i], text) = p
                THEN marker_to_insert(citations_list[i].segments)
                ELSE <<>>])

\* The text with every marker directly after the character at index
\* end_index - 1, the markers of one position in the order of citations_list
Placed(text, citations_list) ==
    MarkersAt(citations_list, text, 0)
    \o Flatten([p \in 1..Len(text) |->
                   <<text[p]>> \o MarkersAt(citations_list, text, p)])

Orderings(n) ==
    {f \in [1..n -> 1..n] : \A i, j \in 1..n : f[i] = f[j] => i = j}

\* The output is the text with every marker at its anchor, the markers of
\* one anchor adjacent in some order
PlacedAtAnchors ==
    \E f \in Orderings(Len(Val(call).citations_list)) :
        Val(returned) =
            Placed(Val(call).text,
                   [i \in 1..Len(Val(call).citations_list) |->
                       Val(call).citations_list[f[i]]])

\* C16 as stated: for any list of citations, every marker ends up directly
\* after the original character at index end_index - 1, markers of equal
\* end_index adjacent
C16_MarkersAtAnchors == InsertReturned => PlacedAtAnchors

\* C16, amended: for any list of citations whose end_index values lie within
\* the text, in any input order, every marker ends up directly after the
\* original character at index end_index - 1, markers of equal end_index
\* adjacent
C16_MarkersAtAnchorsWithinText ==
    (InsertReturned /\ EndsWithinText) => PlacedAtAnchors

\* Two citations with markers were given in ascending order of end_index;
\* they anchor at different places of the text, neither at its start
C16_Witness ==
    /\ InsertReturned
    /\ EndsWithinText
    /\ Len(Val(call).citations_list) = 2
    /\ Val(call).citations_list[1].end_index < Val(call).citations_list[2].end_index
    /\ Val(call).citations_list[1].end_index >= 1
    /\ Len(Val(call).citations_list[1].segments) > 0
    /\ Len(Val(call).citations_list[2].segments) > 0
    /\ PlacedAtAnchors

\* C17: with an empty citation list the call returns the text unchanged
C17_NoCitationsNoChange ==
    (InsertReturned /\ Val(call).citations_list = <<>>) =>
        Val(returned) = Val(call).text

\* A non-empty text went through with no citation
C17_Witness ==
    /\ InsertReturned
    /\ Val(call).citations_list = <<>>
    /\ Len(Val(call).text) > 0
    /\ Val(returned) = Val(call).text

\* ------------------------------------------------ get_citations, called alone
\* Chunks as the provider may send them: titles with one and with two
\* dots, a title without a dot, no title, no web part, an empty title
ChunkOneDot == Chunk(U1, <<"r", ".", "p">>)
ChunkTwoDots == Chunk(U2, <<"a", ".", "b", ".", "c">>)
ChunkNoDot == Chunk(U3, <<"n">>)
ChunkNoTitle == [web |-> Some([uri |-> <<"u", "4">>, title |-> None])]
ChunkNoWeb == [web |-> None]
ChunkEmptyTitle == Chunk(<<"u", "5">>, <<>>)

ChunkLists ==
    {<<ChunkOneDot, ChunkTwoDots>>,
     <<ChunkOneDot, ChunkNoWeb, ChunkTwoDots>>,
     <<ChunkNoTitle, ChunkOneDot, ChunkNoDot>>,
     <<ChunkEmptyTitle, ChunkNoDot>>}

\* The segment of a support: missing, or with start_index / end_index that
\* may be missing
SupportSegments ==
    {None,
     Some([start_index |-> None,    end_index |-> None]),
     Some([start_index |-> None,    end_index |-> Some(1)]),
     Some([start_index |-> Some(0), end_index |-> Some(2)]),
     Some([start_index |-> Some(1), end_index |-> Some(3)])}

\* The chunk indices of a support: missing, empty, or a list that may hold
\* an index beyond the chunk list
SupportIndices ==
    {None, Some(<<>>), Some(<<1, 0>>), Some(<<2, 1, 0>>), Some(<<3, 1>>)}

CitationSupports ==
    {[segment |-> seg, grounding_chunk_indices |-> inds] :
        seg \in SupportSegments, inds \in SupportIndices}

\* The uris of the chunks that have a web part, in list order
RECURSIVE WebUris(_)
WebUris(chunks) ==
    IF Len(chunks) = 0 THEN <<>>
    ELSE (IF IsNone(Head(chunks).web) THEN <<>>
          ELSE <<Val(Head(chunks).web).uri>>) \o WebUris(Tail(chunks))

CitationCalls ==
    {[fn                |-> "get_citations",
      response          |-> Response(<<"a", "b", "c">>,
                               Some(Metadata(Some(chunks), Some(supports)))),
      resolved_urls_map |-> resolve_loop(WebUris(chunks), 0, 0, <<>>)] :
        chunks \in ChunkLists,
        supports \in SeqsOf(CitationSupports, 0, MaxSupports)}

InitCitations ==
    /\ NoRun
    /\ \E c \in CitationCalls : call = Some(c)
    /\ returned = None

CallGetCitations ==
    /\ ~IsNone(call)
    /\ Val(call).fn = "get_citations"
    /\ IsNone(returned)
    /\ ~get_citations_raises(Val(call).response)
    /\ returned' = Some(get_citations(Val(call).response,
                                      Val(call).resolved_urls_map))
    /\ UNCHANGED call
    /\ NoRunStep

NextCitations == CallGetCitations

SpecCitations == InitCitations /\ [][NextCitations]_vars

CitationsReturned ==
    ~IsNone(call) /\ Val(call).fn = "get_citations" /\ ~IsNone(returned)

CalledSupports ==
    Val(Val(Val(call).response.candidates[1].grounding_metadata).grounding_supports)

CalledChunks ==
    Val(Val(Val(call).response.candidates[1].grounding_metadata).grounding_chunks)

\* The support has a segment with an end_index
HasAnchor(support) ==
    /\ ~IsNone(support.segment)
    /\ ~IsNone(Val(support.segment).end_index)

AnchoredSupports == SelectSeq(CalledSupports, HasAnchor)

\* C18: get_citations returns one citation for each support that has a
\* segment with an end_index, in the order of the supports, with that
\* end_index and with the start_index of the segment, 0 when it has none;
\* supports without a segment or without an end_index give no citation
C18_OneCitationPerAnchoredSupport ==
    CitationsReturned =>
        /\ Len(Val(returned)) = Len(AnchoredSupports)
        /\ \A k \in 1..Len(AnchoredSupports) :
              LET segment == Val(AnchoredSupports[k].segment) IN
              /\ Val(returned)[k].end_index = Val(segment.end_index)
              /\ Val(returned)[k].start_index =
                    IF IsNone(segment.start_index) THEN 0
                    ELSE Val(segment.start_index)

\* A support without end_index was skipped and a later support without
\* start_index gave a citation that starts at 0
C18_Witness ==
    /\ CitationsReturned
    /\ Len(CalledSupports) = 2
    /\ ~HasAnchor(CalledSupports[1])
    /\ HasAnchor(CalledSupports[2])
    /\ IsNone(Val(CalledSupports[2].segment).start_index)
    /\ Len(Val(returned)) = 1
    /\ Val(returned)[1].start_index = 0

\* A source can be built from the chunk: it has a web part and a title,
\* and the title holds a "." (without one the label cannot be derived)
WellFormed(chunk) ==
    /\ ~IsNone(chunk.web)
    /\ ~IsNone(Val(chunk.web).title)
    /\ "." \in Range(Val(Val(chunk.web).title))

\* The uris of the well-formed chunks that indices refers to, in the order
\* of indices
RECURSIVE ReferencedUris(_, _)
ReferencedUris(chunks, indices) ==
    IF Len(indices) = 0 THEN <<>>
    ELSE (IF /\ Head(indices) \in 0..(Len(chunks) - 1)
             /\ WellFormed(chunks[Head(indices) + 1])
          THEN <<Val(chunks[Head(indices) + 1].web).uri>>
          ELSE <<>>) \o ReferencedUris(chunks, Tail(indices))

IndicesOf(support) ==
    IF IsNone(support.grounding_chunk_indices) THEN <<>>
    ELSE Val(support.grounding_chunk_indices)

\* C19: the citation of a support holds exactly the sources of the
\* well-formed chunks its index list refers to, in index-list order; an
\* index beyond the chunk list or a malformed chunk leaves out that source
\* only, and the citation is emitted all the same
C19_OnlyFailedSourceOmitted ==
    CitationsReturned =>
        /\ Len(Val(returned)) = Len(AnchoredSupports)
        /\ \A k \in 1..Len(AnchoredSupports) :
              [j \in 1..Len(Val(returned)[k].segments) |->
                  Val(returned)[k].segments[j].value]
                = ReferencedUris(CalledChunks, IndicesOf(AnchoredSupports[k]))

\* One support referred to a good chunk, a chunk without web part and
\* another good chunk, a second one to an index beyond the list and a good
\* chunk: the citations hold the good sources, in the order referred to
C19_Witness ==
    /\ CitationsReturned
    /\ Len(CalledChunks) = 3
    /\ ~WellFormed(CalledChunks[2])
    /\ Len(AnchoredSupports) = 2
    /\ IndicesOf(AnchoredSupports[1]) = <<2, 1, 0>>
    /\ IndicesOf(AnchoredSupports[2]) = <<3, 1>>
    /\ Len(Val(returned)[1].segments) = 2
    /\ Val(returned)[1].segments[1].value = Val(CalledChunks[3].web).uri
    /\ Val(returned)[1].segments[2].value = Val(CalledChunks[1].web).uri
    /\ Len(Val(returned)[2].segments) = 0

\* The parts joined by "."
RECURSIVE JoinDots(_)
JoinDots(parts) ==
    IF Len(parts) = 0 THEN <<>>
    ELSE IF Len(parts) = 1 THEN parts[1]
    ELSE parts[1] \o <<".">> \o JoinDots(Tail(parts))

\* The title without its last "."-separated part
WithoutLastPart(title) ==
    LET parts == StrSplit(title, ".")
    IN  JoinDots(SubSeq(parts, 1, Len(parts) - 1))

\* The title of the chunk a source was built from
TitleOfUri(uri) ==
    LET i == CHOOSE i \in 1..Len(CalledChunks) :
                ~IsNone(CalledChunks[i].web) /\ Val(CalledChunks[i].web).uri = uri
    IN  Val(Val(CalledChunks[i].web).title)

\* C20: the label of every source in a returned citation is the title of
\* its chunk without the last "."-separated part, whatever the number of
\* "." in the title
C20_LabelDropsLastPartOnly ==
    CitationsReturned =>
        \A k \in 1..Len(Val(returned)) :
            \A j \in 1..Len(Val(returned)[k].segments) :
                LET source == Val(returned)[k].segments[j] IN
                source.label = WithoutLastPart(TitleOfUri(source.value))

\* ---------------------------------- from_runnable_config, called alone
\* os.environ: each of three configuration variables unset or set
Environs ==
    {loops @@ queries @@ model :
        loops   \in {<<>>} \cup {"MAX_RESEARCH_LOOPS" :> v :
                                    v \in {<<"0">>, <<"1">>, <<"3">>}},
        queries \in {<<>>, "NUMBER_OF_INITIAL_QUERIES" :> <<"2">>},
        model   \in {<<>>, "ANSWER_MODEL" :> "model-env"}}

\* The RunnableConfig: without "configurable", or with runtime values for
\* none, one or two of the fields
RunnableConfigs ==
    {<<>>}
    \cup {[configurable |-> loops @@ model] :
            loops \in {<<>>} \cup {"max_research_loops" :> v : v \in {1, 4}},
            model \in {<<>>, "answer_model" :> "model-run"}}

InitConfiguration ==
    /\ environ \in Environs
    /\ config \in RunnableConfigs
    /\ channels = EmptyChannels
    /\ pc = "call"
    /\ tasks = <<>>
    /\ outs = <<>>
    /\ dispatched = <<>>
    /\ n_reflection = 0
    /\ n_finalize = 0
    /\ failure = "none"
    /\ synthesized = None
    /\ produced = <<>>
    /\ call = Some([fn |-> "from_runnable_config"])
    /\ returned = None

CallFromRunnableConfig ==
    /\ ~IsNone(call)
    /\ Val(call).fn = "from_runnable_config"
    /\ IsNone(returned)
    /\ returned' = Some(from_runnable_config(environ, config))
    /\ UNCHANGED call
    /\ NoRunStep

NextConfiguration == CallFromRunnableConfig

SpecConfiguration == InitConfiguration /\ [][NextConfiguration]_vars

ConfigurationReturned ==
    ~IsNone(call) /\ Val(call).fn = "from_runnable_config" /\ ~IsNone(returned)

\* The runtime values of the call
RuntimeValues == GetOr(config, "configurable", <<>>)

\* The value an environment variable gives a field
EnvironValue(name) ==
    IF name \in IntFields THEN ParseInt(environ[Upper[name]])
    ELSE environ[Upper[name]]

\* C21: every field of the returned Configuration holds the runtime value
\* when one is given, else the value of the environment variable when it is
\* set, else the declared default
C21_RuntimeOverEnvironOverDefault ==
    ConfigurationReturned =>
        \A name \in FieldNames :
            Val(returned)[name] =
                IF name \in DOMAIN RuntimeValues THEN RuntimeValues[name]
                ELSE IF Upper[name] \in DOMAIN environ THEN EnvironValue(name)
                ELSE FieldDefaults[name]

\* ------------------------------------------- runs of more than two rounds
\* A run configured with max_research_loops = 3, the least value with which
\* the evaluator can route back to retrieval twice: such a run dispatches up
\* to two follow-up batches, the second holding the follow-up queries of
\* both rounds
InitLongRun ==
    /\ environ = <<>>
    /\ config = [configurable |-> [max_research_loops |-> 3]]
    /\ channels = ApplyWrites(EmptyChannels,
                              [messages |-> <<HumanMessage(<<"t">>)>>])
    /\ pc = "generate_query"
    /\ tasks = <<>>
    /\ outs = <<>>
    /\ dispatched = <<>>
    /\ n_reflection = 0
    /\ n_finalize = 0
    /\ failure = "none"
    /\ synthesized = None
    /\ produced = <<>>
    /\ call = None
    /\ returned = None

SpecLongRun == InitLongRun /\ [][Next]_vars

\* C22: when a reflection routes back to retrieval, the batch dispatched has
\* one web_research task per follow-up query that this reflection's
\* evaluator call returned, in that order and no other, and the i-th task
\* (counting from 0) carries the id number_of_ran_queries + i
C22_BatchIsThisRoundsFollowUps ==
    [][(pc = "reflection" /\ pc' = "web_research") =>
          \E result \in ReflectionResults(n_reflection + 1) :
              /\ Len(tasks') = Len(result.follow_up_queries)
              /\ \A i \in 1..Len(tasks') :
                    /\ tasks'[i].arg.search_query = result.follow_up_queries[i]
                    /\ tasks'[i].arg.id =
                          channels'.number_of_ran_queries + (i - 1)]_vars

\* C23: the number_of_ran_queries a reflection writes is the number of
\* web_research tasks dispatched in the run up to that reflection
C23_RanQueriesCountsDispatched ==
    [][(pc = "reflection" /\ n_reflection' = n_reflection + 1
        /\ failure' = "none") =>
          channels'.number_of_ran_queries = Len(AllDispatched)]_vars

\* Number of batches dispatched that hold at least one task
NonEmptyBatches ==
    Cardinality({b \in 1..Len(dispatched) : Len(dispatched[b]) > 0})

\* C24: reflection runs only when every task dispatched so far has completed
\* and been merged, it has run once for every batch whose tasks have all
\* completed, and research_loop_count is the number of reflections that ran
C24_OneReflectionPerBatch ==
    /\ pc = "reflection" =>
          /\ tasks = <<>>
          /\ Len(produced) = Len(AllDispatched)
    /\ pc \in {"web_research", "reflection"} =>
          n_reflection = NonEmptyBatches - 1
    /\ (pc \in {"finalize_answer", "END"} /\ Len(AllDispatched) > 0) =>
          n_reflection = NonEmptyBatches
    /\ failure # "reflection" =>
          GetOr(channels, "research_loop_count", 0) = n_reflection

\* Two reflections ran, the first after a batch of two tasks, the second
\* after a batch of one
C24_Witness ==
    /\ failure = "none"
    /\ n_reflection = 2
    /\ channels.research_loop_count = 2
    /\ Len(dispatched) >= 2
    /\ Len(dispatched[1]) = 2
    /\ Len(dispatched[2]) = 1
    /\ Len(produced) = 3

\* s is the beginning of t
IsPrefix(s, t) == Len(s) <= Len(t) /\ SubSeq(t, 1, Len(s)) = s

\* C25: the step that merges a batch of N completed tasks appends N entries
\* to web_research_result and the sources of those N tasks to
\* sources_gathered, and leaves the entries of earlier rounds in place
C25_FanInAppendsAll ==
    [][(pc = "web_research" /\ pc' = "reflection") =>
          LET N == Len(tasks)
              merged == SubSeq(produced', Len(produced) + 1, Len(produced'))
          IN  /\ Len(merged) = N
              /\ Len(channels'.web_research_result) =
                    Len(channels.web_research_result) + N
              /\ IsPrefix(channels.web_research_result,
                          channels'.web_research_result)
              /\ IsPrefix(channels.sources_gathered,
                          channels'.sources_gathered)
              /\ SubSeq(channels'.sources_gathered,
                        Len(channels.sources_gathered) + 1,
                        Len(channels'.sources_gathered))
                   = Flatten([i \in 1..N |-> merged[i].sources_gathered])]_vars

\* A second batch has been merged on top of the two results and the sources
\* of the first
C25_Witness ==
    /\ pc = "reflection"
    /\ Len(dispatched) = 2
    /\ Len(dispatched[1]) = 2
    /\ Len(channels.web_research_result) = 3
    /\ Len(channels.sources_gathered) >= 3
    /\ Len(produced) = 3
    /\ Len(produced[3].sources_gathered) > 0

\* C27: as long as finalize_answer has not run, messages holds what the run
\* input put there and nothing of type "ai"; once it has run, one answer
\* message has been appended
C27_AnswerOnlyFromFinalize ==
    /\ n_finalize = 0 =>
          /\ channels.messages = <<HumanMessage(<<"t">>)>>
          /\ \A i \in 1..Len(channels.messages) : channels.messages[i].type # "ai"
    /\ n_finalize = 1 =>
          /\ Len(channels.messages) = 2
          /\ channels.messages[1] = HumanMessage(<<"t">>)
          /\ channels.messages[2].type = "ai"
    /\ n_finalize <= 1

\* A run failed in its second reflection, after two batches of research,
\* with no answer message
C27_Witness ==
    /\ pc = "FAILED"
    /\ failure = "reflection"
    /\ n_reflection = 2
    /\ Len(channels.web_research_result) >= 2
    /\ Len(channels.messages) = 1

\* The loop bound of the run: the max_research_loops of the run input when
\* it supplies one, else the configured value
RunLoopBound ==
    IF "max_research_loops" \in DOMAIN channels
    THEN channels.max_research_loops
    ELSE MaxResearchLoops

\* C26: the routing after every reflection compares research_loop_count with
\* the max_research_loops of the run input when the input supplies one, and
\* with the configured value only when it supplies none
C26_InputBoundOverridesConfigured ==
    [][(pc = "reflection" /\ n_reflection' = n_reflection + 1
        /\ failure' = "none" /\ ~channels'.is_sufficient) =>
          (pc' = "finalize_answer"
              <=> channels'.research_loop_count >= RunLoopBound)]_vars

\* The chunk has a web part and a title, and the title holds no "."
TitleWithoutDot(chunk) ==
    /\ ~IsNone(chunk.web)
    /\ ~IsNone(Val(chunk.web).title)
    /\ "." \notin Range(Val(Val(chunk.web).title))

\* The uris of the chunks with a title without "." that indices refers to
DotlessUris(chunks, indices) ==
    {Val(chunks[indices[i] + 1].web).uri :
        i \in {j \in 1..Len(indices) :
                 /\ indices[j] \in 0..(Len(chunks) - 1)
                 /\ TitleWithoutDot(chunks[indices[j] + 1])}}

RECURSIVE AllWithoutSources(_)
AllWithoutSources(citations) ==
    IF Len(citations) = 0 THEN TRUE
    ELSE Len(Head(citations).segments) = 0 /\ AllWithoutSources(Tail(citations))

\* C28: a referenced chunk whose title holds no "." (the empty title
\* included) gives no source, the citation of its support is emitted all the
\* same, and citations left without any source insert nothing into the text
C28_DotlessTitleSourceOmitted ==
    CitationsReturned =>
        /\ Len(Val(returned)) = Len(AnchoredSupports)
        /\ \A k \in 1..Len(AnchoredSupports) :
              \A j \in 1..Len(Val(returned)[k].segments) :
                 Val(returned)[k].segments[j].value \notin
                    DotlessUris(CalledChunks, IndicesOf(AnchoredSupports[k]))
        /\ AllWithoutSources(Val(returned)) =>
              insert_citation_markers(Val(call).response.text, Val(returned))
                 = Val(call).response.text

\* A support referred to a chunk with an empty title and to one whose title
\* has no ".": its citation was emitted without sources
C28_Witness ==
    /\ CitationsReturned
    /\ CalledChunks = <<ChunkEmptyTitle, ChunkNoDot>>
    /\ Len(AnchoredSupports) = 1
    /\ IndicesOf(AnchoredSupports[1]) = <<1, 0>>
    /\ Len(Val(returned)) = 1
    /\ Val(returned)[1].segments = <<>>

====
